---- MODULE Spec2Model ----
(***************************************************************************)
(* Model of the NEO ingestion script (src/database.py), the flat           *)
(* normalizer (src/normalize.py) and the lookup handler of the web         *)
(* service (src/main.py).                                                  *)
(*                                                                         *)
(* Python dicts are functions whose DOMAIN is the set of keys present, so  *)
(* d["k"] raises KeyError exactly when "k" is not in DOMAIN d and          *)
(* d.get("k", v) is v in that case.  JSON scalars that the code only       *)
(* copies (names, urls, magnitudes, dates, epochs) are opaque tokens;      *)
(* booleans are the Python literals "True"/"False"; None is "None".        *)
(* Numeric strings are sequences of one-character strings so that float()  *)
(* is a real parse.                                                        *)
(***************************************************************************)
EXTENDS Integers, Sequences, FiniteSets, TLC

(* ------------------------------ bounds --------------------------------- *)
\* pages fetched per run (max_pages = 5 in src/database.py:70, scaled down)
max_pages == 2
\* records in one page of the browse endpoint (size=200 in the source)
MaxPageLen == 2
\* records served by the remote API over the whole behaviour
MaxRecords == 2
\* executions of the ingestion script
MaxRuns == 2
\* dates of a feed response, and objects in it over all dates
MaxGroups == 2
MaxFeedObjects == 3

(* --------------------------- Python helpers ---------------------------- *)
None == "None"
PyTrue == "True"
PyFalse == "False"

\* d.get(k, default)
Get(d, k, default) == IF k \in DOMAIN d THEN d[k] ELSE default

\* a test that every value passes
Truthy_any(v) == TRUE

\* truth value of a JSON scalar, as `not x` / `if x` evaluate it
Truthy(v) == v \notin {PyFalse, None}

\* int(b) for a bool
PyInt(b) == IF b = PyTrue THEN 1 ELSE 0

Digits == <<"0", "1", "2", "3", "4", "5", "6", "7", "8", "9">>

DigitVal(c) == (CHOOSE i \in 1..10 : Digits[i] = c) - 1

IsDigit(c) == \E i \in 1..10 : Digits[i] = c

\* float(s) raises ValueError unless s is a numeral
FloatOk(s) == Len(s) > 0 /\ \A i \in 1..Len(s) : IsDigit(s[i])

RECURSIVE Float(_)
Float(s) == IF Len(s) = 0 THEN 0
            ELSE 10 * Float(SubSeq(s, 1, Len(s) - 1)) + DigitVal(s[Len(s)])

(* ------------------------------ raw inputs ----------------------------- *)
\* d without key k
Without(d, k) == [x \in DOMAIN d \ {k} |-> d[x]]

\* d with key k set to v
With(d, k, v) == [x \in DOMAIN d \cup {k} |-> IF x = k THEN v ELSE d[x]]

Ids == {"2465633", "3542519"}
Names == {"465633 (2009 JR5)", "(2010 PK9)"}

N0 == <<"0">>
N7 == <<"7">>
N18 == <<"1", "8">>
N40 == <<"4", "0">>
NotANumber == <<"n", "o", "t", "_", "a", "_", "n", "u", "m", "b", "e", "r">>

\* one entry of close_approach_data
Approach(date, kms) ==
    [close_approach_date |-> date,
     close_approach_date_full |-> "2015-Sep-08 20:28",
     epoch_date_close_approach |-> "1441744080000",
     relative_velocity |-> [kilometers_per_second |-> kms,
                            kilometers_per_hour |-> N40,
                            miles_per_hour |-> N7],
     miss_distance |-> [astronomical |-> N0,
                        lunar |-> N18,
                        kilometers |-> N40,
                        miles |-> N7],
     orbiting_body |-> "Earth"]

A1 == Approach("2015-09-08", N18)
A2 == Approach("2020-01-01", N7)
\* the optional keys of an entry left out
AOptional == Without(Without(A1, "close_approach_date_full"), "epoch_date_close_approach")
\* a velocity and a miss distance that float() rejects
ABadVelocity == Approach("2017-03-03", NotANumber)
ABadDistance == [A2 EXCEPT !.miss_distance.miles = NotANumber]
\* a required key of an entry left out
ANoBody == Without(A1, "orbiting_body")

GoodApproachLists == {<<>>, <<A1>>, <<A2, A1>>}
BadApproachLists == {<<A1, ABadVelocity>>, <<A2, ABadDistance, A1>>, <<A1, ANoBody>>}

\* estimated_diameter is an insertion-ordered dict: a sequence of items
Unit(u, lo, hi) == [key |-> u, value |-> [estimated_diameter_min |-> lo, estimated_diameter_max |-> hi]]

UnitLabels == {"kilometers", "meters", "miles", "feet"}
Km == Unit("kilometers", 1, 2)
Mt == Unit("meters", 217, 485)
Mi == Unit("miles", 1, 1)
Ft == Unit("feet", 712, 1592)
FullDiameter == <<Km, Mt, Mi, Ft>>
PartDiameters == {<<>>, <<Ft, Km>>, <<Mi, Km, Mt>>}
\* a unit whose block lacks estimated_diameter_min
BrokenDiameter == <<Km, [key |-> "meters", value |-> [estimated_diameter_max |-> 485]], Ft>>

Raw(id, name, cad) ==
    [id |-> id,
     neo_reference_id |-> id,
     name |-> name,
     nasa_jpl_url |-> "https://ssd.jpl.nasa.gov",
     absolute_magnitude_h |-> "20.44",
     estimated_diameter |-> FullDiameter,
     is_potentially_hazardous_asteroid |-> PyTrue,
     close_approach_data |-> cad,
     is_sentry_object |-> PyFalse]

RawKeys == {"id", "neo_reference_id", "name", "nasa_jpl_url", "absolute_magnitude_h",
            "estimated_diameter", "is_potentially_hazardous_asteroid",
            "close_approach_data", "is_sentry_object"}

Sample == Raw("2465633", "465633 (2009 JR5)", <<A1>>)

WellFormed ==
    {Raw(id, nm, <<A1>>) : id \in Ids, nm \in Names}
    \cup {Raw(id, "(2010 PK9)", cad) : id \in Ids, cad \in GoodApproachLists}

\* records that differ from the sample in one place
Variants ==
    {Without(Sample, k) : k \in RawKeys}
    \cup {With(Sample, "is_potentially_hazardous_asteroid", PyFalse),
          With(Sample, "is_sentry_object", PyTrue),
          With(Sample, "close_approach_data", <<AOptional>>),
          With(Sample, "estimated_diameter", BrokenDiameter)}
    \cup {With(Sample, "estimated_diameter", d) : d \in PartDiameters}
    \cup {With(Sample, "close_approach_data", cad) : cad \in BadApproachLists}

RawRecords == WellFormed \cup Variants

(* ------------------------- src/database.py ----------------------------- *)
VARIABLES
    db,         \* asteroids.db as committed: what another connection reads
    conn,       \* the tables as the script's connection sees them
    page,       \* page counter of the pagination loop
    todo,       \* records of the current page not yet iterated
    asteroid,   \* loop variable: the record being ingested
    pc,         \* position of the script
    runs,       \* executions of the script so far
    served,     \* records served by the remote API so far
    response,   \* last response of the web service
    feed_response,      \* the /feed body handed to the normalizer
    asteroid_batch,     \* result of extract_asteroids_from_feed
    normalized_batch,   \* result of normalize_multiple_asteroids
    npc                 \* position of the normalizer script

\* the three tables after CREATE TABLE IF NOT EXISTS on a new file
EmptyStore == [asteroids |-> <<>>, asteroid_diameters |-> <<>>, close_approaches |-> <<>>]

Raise(exc) == [op |-> "raise", exc |-> exc]

AsteroidRequired == {"id", "neo_reference_id", "name", "nasa_jpl_url", "absolute_magnitude_h"}

\* the parameter tuple of INSERT OR REPLACE INTO asteroids
AsteroidRow(a) ==
    [id |-> a["id"],
     neo_reference_id |-> a["neo_reference_id"],
     name |-> a["name"],
     nasa_jpl_url |-> a["nasa_jpl_url"],
     absolute_magnitude_h |-> a["absolute_magnitude_h"],
     is_potentially_hazardous |-> PyInt(a["is_potentially_hazardous_asteroid"]),
     is_sentry_object |-> PyInt(Get(a, "is_sentry_object", PyFalse))]

AsteroidStmt(a) ==
    IF AsteroidRequired \subseteq DOMAIN a
    THEN [op |-> "asteroids", row |-> AsteroidRow(a)]
    ELSE Raise("KeyError")

\* a parameter tuple with the two bounds in each other's place
DiameterRow_swapped(a, item) ==
    [asteroid_id |-> a["id"],
     unit |-> item.key,
     diameter_min |-> item.value["estimated_diameter_max"],
     diameter_max |-> item.value["estimated_diameter_min"]]

\* the parameter tuple of INSERT INTO asteroid_diameters for one item
DiameterRow(a, item) ==
    [asteroid_id |-> a["id"],
     unit |-> item.key,
     diameter_min |-> item.value["estimated_diameter_min"],
     diameter_max |-> item.value["estimated_diameter_max"]]

DiameterStmts(a) ==
    IF "estimated_diameter" \notin DOMAIN a THEN <<Raise("KeyError")>>
    ELSE LET d == a["estimated_diameter"] IN
         [i \in 1..Len(d) |->
            IF {"estimated_diameter_min", "estimated_diameter_max"} \subseteq DOMAIN d[i].value
            THEN [op |-> "asteroid_diameters", row |-> DiameterRow(a, d[i])]
            ELSE Raise("KeyError")]

\* float(d[k]): "" when it evaluates, else the exception it raises
FloatArgError(d, k) ==
    IF k \notin DOMAIN d THEN "KeyError"
    ELSE IF ~FloatOk(d[k]) THEN "ValueError" ELSE ""

RECURSIVE FirstError(_)
FirstError(errs) ==
    IF Len(errs) = 0 THEN ""
    ELSE IF Head(errs) # "" THEN Head(errs) ELSE FirstError(Tail(errs))

\* the exception raised while the parameter tuple of one approach is built
ApproachError(approach) ==
    IF "close_approach_date" \notin DOMAIN approach THEN "KeyError"
    ELSE IF "relative_velocity" \notin DOMAIN approach THEN "KeyError"
    ELSE LET v == approach["relative_velocity"]
             ve == FirstError(<<FloatArgError(v, "kilometers_per_second"),
                                FloatArgError(v, "kilometers_per_hour"),
                                FloatArgError(v, "miles_per_hour")>>)
         IN IF ve # "" THEN ve
            ELSE IF "miss_distance" \notin DOMAIN approach THEN "KeyError"
            ELSE LET m == approach["miss_distance"]
                     me == FirstError(<<FloatArgError(m, "astronomical"),
                                        FloatArgError(m, "lunar"),
                                        FloatArgError(m, "kilometers"),
                                        FloatArgError(m, "miles")>>)
                 IN IF me # "" THEN me
                    ELSE IF "orbiting_body" \notin DOMAIN approach THEN "KeyError"
                    ELSE ""

\* the parameter tuple of INSERT INTO close_approaches for one entry
ApproachRow(a, approach) ==
    [asteroid_id |-> a["id"],
     close_approach_date |-> approach["close_approach_date"],
     close_approach_date_full |-> Get(approach, "close_approach_date_full", None),
     epoch_date_close_approach |-> Get(approach, "epoch_date_close_approach", None),
     velocity_km_s |-> Float(approach["relative_velocity"]["kilometers_per_second"]),
     velocity_km_h |-> Float(approach["relative_velocity"]["kilometers_per_hour"]),
     velocity_mi_h |-> Float(approach["relative_velocity"]["miles_per_hour"]),
     miss_distance_astronomical |-> Float(approach["miss_distance"]["astronomical"]),
     miss_distance_lunar |-> Float(approach["miss_distance"]["lunar"]),
     miss_distance_km |-> Float(approach["miss_distance"]["kilometers"]),
     miss_distance_miles |-> Float(approach["miss_distance"]["miles"]),
     orbiting_body |-> approach["orbiting_body"]]

\* a loop that stores the first entry only
ApproachStmts_first_only(a) ==
    IF "close_approach_data" \notin DOMAIN a THEN <<Raise("KeyError")>>
    ELSE LET cad == a["close_approach_data"] IN
         [i \in 1..(IF Len(cad) > 0 THEN 1 ELSE 0) |->
            IF ApproachError(cad[i]) = ""
            THEN [op |-> "close_approaches", row |-> ApproachRow(a, cad[i])]
            ELSE Raise(ApproachError(cad[i]))]

ApproachStmts(a) ==
    IF "close_approach_data" \notin DOMAIN a THEN <<Raise("KeyError")>>
    ELSE LET cad == a["close_approach_data"] IN
         [i \in 1..Len(cad) |->
            IF ApproachError(cad[i]) = ""
            THEN [op |-> "close_approaches", row |-> ApproachRow(a, cad[i])]
            ELSE Raise(ApproachError(cad[i]))]

\* the statements of one loop body, in program order; the first "raise"
\* ends the script
Statements(a) ==
    IF AsteroidStmt(a).op = "raise" THEN <<AsteroidStmt(a)>>
    ELSE <<AsteroidStmt(a)>> \o DiameterStmts(a) \o ApproachStmts(a)

\* a plain INSERT, which keeps the row already stored under the id
InsertOrReplace_append(rows, row) == Append(rows, row)

\* INSERT OR REPLACE on the primary key id
InsertOrReplace(rows, row) == SelectSeq(rows, LAMBDA r : r.id # row.id) \o <<row>>

\* an execute that deletes the asteroid's earlier child rows before the
\* asteroid row is written again
Execute_replace_children(store, stmt) ==
    IF stmt.op = "asteroids"
    THEN [asteroids |-> InsertOrReplace(store.asteroids, stmt.row),
          asteroid_diameters |->
              SelectSeq(store.asteroid_diameters, LAMBDA r : r.asteroid_id # stmt.row.id),
          close_approaches |->
              SelectSeq(store.close_approaches, LAMBDA r : r.asteroid_id # stmt.row.id)]
    ELSE IF stmt.op = "asteroid_diameters"
    THEN [store EXCEPT !.asteroid_diameters = Append(@, stmt.row)]
    ELSE [store EXCEPT !.close_approaches = Append(@, stmt.row)]

\* cursor.execute of one statement
Execute(store, stmt) ==
    IF stmt.op = "asteroids"
    THEN [store EXCEPT !.asteroids = InsertOrReplace(@, stmt.row)]
    ELSE IF stmt.op = "asteroid_diameters"
    THEN [store EXCEPT !.asteroid_diameters = Append(@, stmt.row)]
    ELSE [store EXCEPT !.close_approaches = Append(@, stmt.row)]

RECURSIVE ExecuteAll(_, _)
ExecuteAll(store, stmts) ==
    IF Len(stmts) = 0 THEN [store |-> store, exc |-> ""]
    ELSE IF Head(stmts).op = "raise" THEN [store |-> store, exc |-> Head(stmts).exc]
    ELSE ExecuteAll(Execute(store, Head(stmts)), Tail(stmts))

\* one iteration of `for asteroid in asteroids`
IngestAsteroid(store, a) ==
    IF "is_potentially_hazardous_asteroid" \notin DOMAIN a
    THEN [store |-> store, exc |-> "KeyError"]
    ELSE IF ~Truthy(a["is_potentially_hazardous_asteroid"])
    THEN [store |-> store, exc |-> ""]
    ELSE ExecuteAll(store, Statements(a))

\* a connection in autocommit mode: every statement is committed at once
Isolation_autocommit(committed, working) == working

\* what other connections read while the script's transaction is open:
\* the connection is opened with the default isolation level, so the
\* statements stay in the implicit transaction until conn.commit()
Isolation(committed, working) == committed

(* ------------------------- src/normalize.py ---------------------------- *)
\* lookup in an insertion-ordered dict
HasKey(items, k) == \E i \in 1..Len(items) : items[i].key = k

At(items, k) == items[CHOOSE i \in 1..Len(items) : items[i].key = k].value

RECURSIVE Extend_prepend(_, _)
\* a loop that puts each date's list in front of the objects collected
Extend_prepend(all_asteroids, items) ==
    IF Len(items) = 0 THEN all_asteroids
    ELSE Extend_prepend(Head(items).value \o all_asteroids, Tail(items))

RECURSIVE Extend(_, _)
\* all_asteroids after the loop `for date in near_earth_objects` has run
\* over the items, starting from all_asteroids
Extend(all_asteroids, items) ==
    IF Len(items) = 0 THEN all_asteroids
    ELSE Extend(all_asteroids \o Head(items).value, Tail(items))

extract_asteroids_from_feed(feed) == Extend(<<>>, Get(feed, "near_earth_objects", <<>>))

Returns(v) == [exc |-> "", value |-> v]
Raises(exc) == [exc |-> exc]

\* the exception raised while the diameter fields of the flat dict are read
DiameterError(raw_data) ==
    IF "estimated_diameter" \notin DOMAIN raw_data THEN "KeyError"
    ELSE LET diameter == raw_data["estimated_diameter"] IN
         IF \A u \in UnitLabels :
               /\ HasKey(diameter, u)
               /\ {"estimated_diameter_min", "estimated_diameter_max"} \subseteq DOMAIN At(diameter, u)
         THEN "" ELSE "KeyError"

\* the dict literal `normalized`
FlatAsteroid(raw_data) ==
    LET diameter == raw_data["estimated_diameter"] IN
    [id |-> Get(raw_data, "id", None),
     name |-> Get(raw_data, "name", None),
     nasa_jpl_url |-> Get(raw_data, "nasa_jpl_url", None),
     absolute_magnitude_h |-> Get(raw_data, "absolute_magnitude_h", None),
     estimated_diameter_km_min |-> At(diameter, "kilometers")["estimated_diameter_min"],
     estimated_diameter_km_max |-> At(diameter, "kilometers")["estimated_diameter_max"],
     estimated_diameter_m_min |-> At(diameter, "meters")["estimated_diameter_min"],
     estimated_diameter_m_max |-> At(diameter, "meters")["estimated_diameter_max"],
     estimated_diameter_mi_min |-> At(diameter, "miles")["estimated_diameter_min"],
     estimated_diameter_mi_max |-> At(diameter, "miles")["estimated_diameter_max"],
     estimated_diameter_ft_min |-> At(diameter, "feet")["estimated_diameter_min"],
     estimated_diameter_ft_max |-> At(diameter, "feet")["estimated_diameter_max"],
     is_potentially_hazardous_asteroid |-> Get(raw_data, "is_potentially_hazardous_asteroid", None),
     is_sentry_object |-> Get(raw_data, "is_sentry_object", None)]

\* the exception raised while the first approach is flattened
FirstApproachError(approach) ==
    IF "relative_velocity" \notin DOMAIN approach THEN "KeyError"
    ELSE IF "miss_distance" \notin DOMAIN approach THEN "KeyError"
    ELSE LET velocity == approach["relative_velocity"]
             distance == approach["miss_distance"]
         IN FirstError(<<FloatArgError(velocity, "kilometers_per_second"),
                         FloatArgError(velocity, "kilometers_per_hour"),
                         FloatArgError(velocity, "miles_per_hour"),
                         FloatArgError(distance, "astronomical"),
                         FloatArgError(distance, "lunar"),
                         FloatArgError(distance, "kilometers"),
                         FloatArgError(distance, "miles")>>)

\* the dict passed to normalized.update
FlatApproach(approach) ==
    LET velocity == approach["relative_velocity"]
        distance == approach["miss_distance"]
    IN [close_approach_date |-> Get(approach, "close_approach_date", None),
        close_approach_date_full |-> Get(approach, "close_approach_date_full", None),
        epoch_date_close_approach |-> Get(approach, "epoch_date_close_approach", None),
        relative_velocity_km_s |-> Float(velocity["kilometers_per_second"]),
        relative_velocity_km_h |-> Float(velocity["kilometers_per_hour"]),
        relative_velocity_mph |-> Float(velocity["miles_per_hour"]),
        miss_distance_au |-> Float(distance["astronomical"]),
        miss_distance_lunar |-> Float(distance["lunar"]),
        miss_distance_km |-> Float(distance["kilometers"]),
        miss_distance_mi |-> Float(distance["miles"]),
        orbiting_body |-> Get(approach, "orbiting_body", None)]

\* dict.update: the keys of `more` added to d
Update(d, more) == [k \in DOMAIN d \cup DOMAIN more |-> IF k \in DOMAIN more THEN more[k] ELSE d[k]]

normalize_asteroid_data(raw_data) ==
    IF DiameterError(raw_data) # "" THEN Raises(DiameterError(raw_data))
    ELSE IF Len(Get(raw_data, "close_approach_data", <<>>)) = 0
    THEN Returns(FlatAsteroid(raw_data))
    ELSE LET approach == raw_data["close_approach_data"][1] IN
         IF FirstApproachError(approach) # "" THEN Raises(FirstApproachError(approach))
         ELSE Returns(Update(FlatAsteroid(raw_data), FlatApproach(approach)))

RECURSIVE Comprehension(_, _)
\* the list comprehension, with `done` the entries built so far: the first
\* exception leaves the comprehension
Comprehension(done, data_list) ==
    IF Len(data_list) = 0 THEN Returns(done)
    ELSE LET r == normalize_asteroid_data(Head(data_list)) IN
         IF r.exc # "" THEN Raises(r.exc)
         ELSE Comprehension(Append(done, r.value), Tail(data_list))

normalize_multiple_asteroids(data_list) == Comprehension(<<>>, data_list)

Dates == <<"2025-10-01", "2025-10-02", "2025-10-03", "2025-10-04">>

\* the records the feed of the normalizer is built from
FeedRecords ==
    {Sample,
     Raw("3542519", "(2010 PK9)", <<A2, A1>>),
     With(Sample, "close_approach_data", <<>>),
     With(Sample, "close_approach_data", <<A1, ABadVelocity>>),
     With(Sample, "close_approach_data", <<ABadVelocity, A2>>),
     With(Sample, "estimated_diameter", <<Ft, Km>>),
     Without(Sample, "estimated_diameter"),
     Without(Sample, "is_sentry_object"),
     Without(Sample, "id")}

(* --------------------------- src/main.py ------------------------------- *)
\* rows of a child table that reference an identifier, in storage order
RowsOf(rows, id) == SelectSeq(rows, LAMBDA r : r.asteroid_id = id)

\* the value a function returns for Python's None
NoResult == [none |-> TRUE]

\* normalize_asteroids(asteroid_id) is imported by main.py but is not among
\* the sources: the read path of sections 4.3 and 4.4 of the specification.
\* It returns the nested view as JSON text, or None if there is no row.
normalize_asteroids(store, asteroid_id) ==
    LET found == SelectSeq(store.asteroids, LAMBDA r : r.id = asteroid_id) IN
    IF Len(found) = 0 THEN NoResult
    ELSE [json |-> [asteroid |-> found[1],
                    diameters |-> RowsOf(store.asteroid_diameters, asteroid_id),
                    approaches |-> RowsOf(store.close_approaches, asteroid_id)]]

HTTPException(status_code, detail) == [status |-> status_code, detail |-> detail]

\* json.loads(text); a TypeError on None, which FastAPI answers with 500
Loads(text) ==
    IF text = NoResult THEN HTTPException(500, "Internal Server Error")
    ELSE [status |-> 200, body |-> text.json]

\* a lookup that goes on to json.loads without the None test
get_asteroid_by_id_unchecked(store, asteroid_id) ==
    Loads(normalize_asteroids(store, asteroid_id))

\* GET /database/asteroids/{asteroid_id}
get_asteroid_by_id(store, asteroid_id) ==
    LET result == normalize_asteroids(store, asteroid_id) IN
    IF result = NoResult
    THEN HTTPException(404, <<"Asteroid with ID not found", asteroid_id>>)
    ELSE Loads(result)

LookupIds == Ids \cup {"9999999"}

\* the outcome of a handler body: a returned value or a raised exception
Return(body) == [kind |-> "return", body |-> body]
RaiseHTTP(status_code, detail) ==
    [kind |-> "raise", exc |-> "HTTPException", status |-> status_code, detail |-> detail]
RaiseOther(exc) == [kind |-> "raise", exc |-> exc, detail |-> <<exc>>]

\* str(e): an HTTPException prints as its status code and detail
Str(outcome) ==
    IF outcome.exc = "HTTPException"
    THEN <<IF outcome.status = 404 THEN "404" ELSE "503">> \o outcome.detail
    ELSE outcome.detail

\* try: ... except Exception as e: raise HTTPException(500, prefix + str(e)).
\* HTTPException is an Exception, so the clause catches it as well
ExceptException(outcome, prefix) ==
    IF outcome.kind = "raise" THEN RaiseHTTP(500, prefix \o Str(outcome)) ELSE outcome

\* what FastAPI sends for the outcome of a handler
Respond(outcome) ==
    IF outcome.kind = "return" THEN [status |-> 200, body |-> outcome.body]
    ELSE IF outcome.exc = "HTTPException" THEN [status |-> outcome.status, detail |-> outcome.detail]
    ELSE [status |-> 500, detail |-> <<"Internal Server Error">>]

\* the list asteroids_data built from the requested ids
RECURSIVE AsteroidsData(_, _)
AsteroidsData(store, asteroidIds) ==
    IF Len(asteroidIds) = 0 THEN <<>>
    ELSE LET result == normalize_asteroids(store, Head(asteroidIds)) IN
         (IF result = NoResult THEN <<>> ELSE <<result.json>>)
         \o AsteroidsData(store, Tail(asteroidIds))

\* the try block of POST /ai/report; completion is the outcome of the
\* chat completion call
ReportBody(store, asteroidIds, completion) ==
    IF Len(AsteroidsData(store, asteroidIds)) = 0
    THEN RaiseHTTP(404, <<"No asteroids found for provided IDs">>)
    ELSE IF completion = "error" THEN RaiseOther("APIConnectionError")
    ELSE Return(<<[html |-> "<!DOCTYPE html>", asteroids |-> Len(AsteroidsData(store, asteroidIds))]>>)

\* POST /ai/report
generate_html_report(store, asteroidIds, completion) ==
    ExceptException(ReportBody(store, asteroidIds, completion), <<"Failed to generate report:">>)

\* the replies of the feed endpoint to requests.get(URL)
NasaReplies ==
    {[status_code |-> 200, json |-> [near_earth_objects |-> <<>>]],
     [status_code |-> 200, json |-> [near_earth_objects |-> <<[key |-> Dates[1], value |-> <<Sample>>]>>]],
     [status_code |-> 200, json |-> [error_message |-> "API_KEY_INVALID"]],
     [status_code |-> 503, json |-> [error_message |-> "Service Unavailable"]],
     [raised |-> "ConnectionError"]}

\* the try block of GET /asteroids/{date}
ApiBody(date, reply) ==
    IF "raised" \in DOMAIN reply THEN RaiseOther(reply.raised)
    ELSE IF reply.status_code = 200
    THEN LET neo == Get(reply.json, "near_earth_objects", <<>>)
             asteroids == IF HasKey(neo, date) THEN At(neo, date) ELSE <<>>
         IN IF Len(asteroids) = 0
            THEN RaiseHTTP(404, <<"No asteroids found for date", date>>)
            ELSE Return(asteroids)
    ELSE RaiseHTTP(reply.status_code, <<"Error fetching from NASA API">>)

\* GET /asteroids/{date}
get_asteroids_from_api(date, reply) == ExceptException(ApiBody(date, reply), <<>>)

\* the asteroidIds lists of the report requests
ReportRequests ==
    {<<>>, <<"9999999">>, <<"2465633">>, <<"9999999", "3542519">>, <<"2465633", "3542519">>}

(* ----------------------------- behaviour ------------------------------- *)
norm == <<feed_response, asteroid_batch, normalized_batch, npc>>

vars == <<db, conn, page, todo, asteroid, pc, runs, served, response, norm>>

Unbound == [unbound |-> TRUE]

Init ==
    /\ db = EmptyStore
    /\ conn = EmptyStore
    /\ page = 0
    /\ todo = 0
    /\ asteroid = Unbound
    /\ pc = "while"
    /\ runs = 1
    /\ served = 0
    /\ response = [status |-> 0]
    /\ feed_response = [near_earth_objects |-> <<>>]
    /\ asteroid_batch = <<>>
    /\ normalized_batch = Returns(<<>>)
    /\ npc = "feed"

\* requests.get + response.json(): a page with n > 0 records
FetchPage ==
    /\ pc = "while" /\ page < max_pages
    /\ \E n \in 1..MaxPageLen :
         /\ served + n <= MaxRecords
         /\ todo' = n
    /\ pc' = "for"
    /\ UNCHANGED <<db, conn, page, asteroid, runs, served, response, norm>>

\* the body has no "near_earth_objects" key: break
FetchError ==
    /\ pc = "while" /\ page < max_pages
    /\ pc' = "commit"
    /\ UNCHANGED <<db, conn, page, todo, asteroid, runs, served, response, norm>>

\* "near_earth_objects" is an empty list: break
FetchEmpty ==
    /\ pc = "while" /\ page < max_pages
    /\ todo' = 0
    /\ pc' = "commit"
    /\ UNCHANGED <<db, conn, page, asteroid, runs, served, response, norm>>

\* page = max_pages: the while loop ends
LoopEnd ==
    /\ pc = "while" /\ page >= max_pages
    /\ pc' = "commit"
    /\ UNCHANGED <<db, conn, page, todo, asteroid, runs, served, response, norm>>

\* one iteration of the for loop over the page
ForAsteroid ==
    /\ pc = "for" /\ todo > 0
    /\ \E a \in RawRecords :
         LET r == IngestAsteroid(conn, a) IN
         /\ asteroid' = a
         /\ conn' = r.store
         /\ db' = Isolation(db, r.store)
         /\ pc' = IF r.exc = "" THEN "for" ELSE "raised"
    /\ todo' = todo - 1
    /\ served' = served + 1
    /\ UNCHANGED <<page, runs, response, norm>>

\* the for loop is exhausted: page += 1
PageDone ==
    /\ pc = "for" /\ todo = 0
    /\ page' = page + 1
    /\ pc' = "while"
    /\ UNCHANGED <<db, conn, todo, asteroid, runs, served, response, norm>>

\* conn.commit(), the listing and conn.close()
Commit ==
    /\ pc = "commit"
    /\ db' = conn
    /\ pc' = "done"
    /\ UNCHANGED <<conn, page, todo, asteroid, runs, served, response, norm>>

\* the uncaught exception ends the interpreter; the connection is closed
\* with its transaction open, which rolls it back
Abort ==
    /\ pc = "raised"
    /\ conn' = db
    /\ pc' = "aborted"
    /\ UNCHANGED <<db, page, todo, asteroid, runs, served, response, norm>>

\* the script is started again on the same database file
Rerun ==
    /\ pc \in {"done", "aborted"} /\ runs < MaxRuns
    /\ runs' = runs + 1
    /\ conn' = db
    /\ page' = 0
    /\ todo' = 0
    /\ asteroid' = Unbound
    /\ pc' = "while"
    /\ UNCHANGED <<db, served, response, norm>>

\* a client of the web service looks an identifier up
Lookup ==
    /\ \E asteroid_id \in LookupIds : response' = get_asteroid_by_id(db, asteroid_id)
    /\ UNCHANGED <<db, conn, page, todo, asteroid, pc, runs, served, norm>>

Next ==
    \/ FetchPage
    \/ FetchError
    \/ FetchEmpty
    \/ LoopEnd
    \/ ForAsteroid
    \/ PageDone
    \/ Commit
    \/ Abort
    \/ Rerun

Spec == Init /\ [][Next]_vars

\* the ingestion script and the web service on the same database file
ServiceNext ==
    \/ Next
    \/ Lookup

ServiceSpec == Init /\ [][ServiceNext]_vars

\* a client asks for a report on a list of identifiers
Report ==
    /\ \E asteroidIds \in ReportRequests, completion \in {"ok", "error"} :
         response' = [request |-> [route |-> "/ai/report", asteroidIds |-> asteroidIds],
                      sent |-> Respond(generate_html_report(db, asteroidIds, completion))]
    /\ UNCHANGED <<db, conn, page, todo, asteroid, pc, runs, served, norm>>

\* a client asks for the feed of a date
ApiFeed ==
    /\ \E date \in {Dates[1], Dates[2]}, reply \in NasaReplies :
         response' = [request |-> [route |-> "/asteroids/{date}", date |-> date, fetched |-> reply],
                      sent |-> Respond(get_asteroids_from_api(date, reply))]
    /\ UNCHANGED <<db, conn, page, todo, asteroid, pc, runs, served, norm>>

\* the ingestion script and the report and feed handlers of the web service
HandlerNext ==
    \/ Next
    \/ Report
    \/ ApiFeed

HandlerSpec == Init /\ [][HandlerNext]_vars

\* the fetcher adds a date to near_earth_objects
AddDate ==
    /\ npc = "feed" /\ "near_earth_objects" \in DOMAIN feed_response
    /\ Len(feed_response["near_earth_objects"]) < MaxGroups
    /\ LET neo == feed_response["near_earth_objects"] IN
       feed_response' = [near_earth_objects |-> Append(neo, [key |-> Dates[Len(neo) + 1], value |-> <<>>])]
    /\ UNCHANGED <<db, conn, page, todo, asteroid, pc, runs, served, response,
                   asteroid_batch, normalized_batch, npc>>

\* the fetcher adds an object to the last date
AddObject ==
    /\ npc = "feed" /\ "near_earth_objects" \in DOMAIN feed_response
    /\ LET neo == feed_response["near_earth_objects"] IN
       /\ Len(neo) > 0
       /\ Len(Extend(<<>>, neo)) < MaxFeedObjects
       /\ \E r \in FeedRecords :
            feed_response' = [near_earth_objects |->
                [neo EXCEPT ![Len(neo)].value = Append(@, r)]]
    /\ UNCHANGED <<db, conn, page, todo, asteroid, pc, runs, served, response,
                   asteroid_batch, normalized_batch, npc>>

\* the body is an error document without near_earth_objects
ErrorBody ==
    /\ npc = "feed" /\ feed_response = [near_earth_objects |-> <<>>]
    /\ feed_response' = [error_message |-> "API_KEY_INVALID"]
    /\ UNCHANGED <<db, conn, page, todo, asteroid, pc, runs, served, response,
                   asteroid_batch, normalized_batch, npc>>

\* asteroid_batch = extract_asteroids_from_feed(fake_feed_response)
Extract ==
    /\ npc = "feed"
    /\ asteroid_batch' = extract_asteroids_from_feed(feed_response)
    /\ npc' = "extracted"
    /\ UNCHANGED <<db, conn, page, todo, asteroid, pc, runs, served, response,
                   feed_response, normalized_batch>>

\* normalized_batch = normalize_multiple_asteroids(asteroid_batch)
Normalize ==
    /\ npc = "extracted"
    /\ normalized_batch' = normalize_multiple_asteroids(asteroid_batch)
    /\ npc' = IF normalized_batch'.exc = "" THEN "normalized" ELSE "raised"
    /\ UNCHANGED <<db, conn, page, todo, asteroid, pc, runs, served, response,
                   feed_response, asteroid_batch>>

NormNext ==
    \/ AddDate
    \/ AddObject
    \/ ErrorBody
    \/ Extract
    \/ Normalize

NormSpec == Init /\ [][NormNext]_vars

(* ------------------------------- claims -------------------------------- *)
\* the step just taken ingested the record asteroid'
Ingested == served' = served + 1

\* the loop body reaches the INSERT OR REPLACE for record a and executes it
Stored(a) ==
    /\ "is_potentially_hazardous_asteroid" \in DOMAIN a
    /\ a["is_potentially_hazardous_asteroid"] = PyTrue
    /\ AsteroidRequired \subseteq DOMAIN a

WithId(rows, id) == SelectSeq(rows, LAMBDA r : r.id = id)

KnownIds(store) == {store.asteroids[i].id : i \in 1..Len(store.asteroids)}

OneRowPerId(store) ==
    \A i, j \in 1..Len(store.asteroids) :
        store.asteroids[i].id = store.asteroids[j].id => i = j

\* every column of the row is the field of the raw record
Carries(row, a) ==
    /\ row.id = a["id"]
    /\ row.neo_reference_id = a["neo_reference_id"]
    /\ row.name = a["name"]
    /\ row.nasa_jpl_url = a["nasa_jpl_url"]
    /\ row.absolute_magnitude_h = a["absolute_magnitude_h"]
    /\ row.is_potentially_hazardous = 1
    /\ row.is_sentry_object =
         (IF "is_sentry_object" \in DOMAIN a /\ a["is_sentry_object"] = PyTrue THEN 1 ELSE 0)

\* C1: after every step the asteroids table, as the script sees it and as
\* committed, has one row per identifier; a step that ingests a record
\* leaves under its identifier the one row that carries every field of that
\* record, leaves the rows of the other identifiers as they were, and does
\* not change the set of known identifiers if the identifier was known.
C1_OneRowLastWrite ==
    [][/\ OneRowPerId(conn') /\ OneRowPerId(db')
       /\ (Ingested /\ Stored(asteroid')) =>
            LET id == asteroid'["id"] IN
            /\ Len(WithId(conn'.asteroids, id)) = 1
            /\ Carries(WithId(conn'.asteroids, id)[1], asteroid')
            /\ \A other \in KnownIds(conn) \ {id} :
                 WithId(conn'.asteroids, other) = WithId(conn.asteroids, other)
            /\ KnownIds(conn') = KnownIds(conn) \cup {id}
            /\ (id \in KnownIds(conn) => Len(conn'.asteroids) = Len(conn.asteroids))
       /\ (pc = "commit" /\ pc' = "done") => db'.asteroids = conn.asteroids]_vars

\* C1 witness: an identifier committed by the first run is ingested again
\* by the second run under another name, and the table has not grown.
C1_Witness ==
    /\ runs = 2 /\ pc = "for" /\ asteroid # Unbound /\ Stored(asteroid)
    /\ Len(WithId(db.asteroids, asteroid["id"])) = 1
    /\ WithId(db.asteroids, asteroid["id"])[1].name # asteroid["name"]
    /\ WithId(conn.asteroids, asteroid["id"])[1].name = asteroid["name"]
    /\ Len(conn.asteroids) = Len(db.asteroids)

\* C2: the committed tables change in one step only, conn.commit(), which
\* publishes every row the run has written; no other step of a run,
\* however it ends, changes what readers see, and the rows written before
\* an exception are discarded with the connection.
C2_AtomicBatch ==
    [][/\ (db' # db => pc = "commit" /\ pc' = "done" /\ db' = conn /\ conn' = conn)
       /\ (pc = "commit" /\ pc' = "done" => db' = conn)
       /\ (pc = "raised" /\ pc' = "aborted" => db' = db /\ conn' = db)
       /\ (pc' = "while" /\ pc \in {"done", "aborted"} => conn' = db /\ db' = db)]_vars

\* C2 witness: the second run has raised after writing rows of a record,
\* while the committed tables still hold only the rows of the first run.
C2_Witness ==
    /\ runs = 2 /\ pc = "raised"
    /\ Len(db.asteroid_diameters) > 0
    /\ Len(conn.asteroid_diameters) > Len(db.asteroid_diameters)
    /\ conn.asteroids # db.asteroids

\* the numerals of the inputs and the numbers they denote
Denotes(s) == IF s = N0 THEN 0 ELSE IF s = N7 THEN 7 ELSE IF s = N18 THEN 18 ELSE 40

Numerals == {N0, N7, N18, N40}

VelocityKeys == {"kilometers_per_second", "kilometers_per_hour", "miles_per_hour"}
DistanceKeys == {"astronomical", "lunar", "kilometers", "miles"}

\* an approach entry with every key the storage loop subscripts and with
\* numerals in its velocity and miss-distance strings
EntryWellFormed(e) ==
    /\ {"close_approach_date", "relative_velocity", "miss_distance", "orbiting_body"} \subseteq DOMAIN e
    /\ VelocityKeys \subseteq DOMAIN e["relative_velocity"]
    /\ DistanceKeys \subseteq DOMAIN e["miss_distance"]
    /\ \A k \in VelocityKeys : e["relative_velocity"][k] \in Numerals
    /\ \A k \in DistanceKeys : e["miss_distance"][k] \in Numerals

\* a diameter block whose every unit has both bounds, with min <= max
BlockWellFormed(block) ==
    \A i \in 1..Len(block) :
        /\ {"estimated_diameter_min", "estimated_diameter_max"} \subseteq DOMAIN block[i].value
        /\ block[i].value["estimated_diameter_min"] <= block[i].value["estimated_diameter_max"]
        /\ \A j \in 1..Len(block) : block[i].key = block[j].key => i = j

\* a raw record with every top-level key but possibly the sentry flag, a
\* well-formed diameter block and well-formed approach entries
Complete(a) ==
    /\ RawKeys \ {"is_sentry_object"} \subseteq DOMAIN a
    /\ BlockWellFormed(a["estimated_diameter"])
    /\ \A i \in 1..Len(a["close_approach_data"]) : EntryWellFormed(a["close_approach_data"][i])

\* the approach row is the entry, with its strings parsed
CarriesEntry(row, id, e) ==
    /\ row.asteroid_id = id
    /\ row.close_approach_date = e["close_approach_date"]
    /\ row.close_approach_date_full =
         (IF "close_approach_date_full" \in DOMAIN e THEN e["close_approach_date_full"] ELSE None)
    /\ row.epoch_date_close_approach =
         (IF "epoch_date_close_approach" \in DOMAIN e THEN e["epoch_date_close_approach"] ELSE None)
    /\ row.velocity_km_s = Denotes(e["relative_velocity"]["kilometers_per_second"])
    /\ row.velocity_km_h = Denotes(e["relative_velocity"]["kilometers_per_hour"])
    /\ row.velocity_mi_h = Denotes(e["relative_velocity"]["miles_per_hour"])
    /\ row.miss_distance_astronomical = Denotes(e["miss_distance"]["astronomical"])
    /\ row.miss_distance_lunar = Denotes(e["miss_distance"]["lunar"])
    /\ row.miss_distance_km = Denotes(e["miss_distance"]["kilometers"])
    /\ row.miss_distance_miles = Denotes(e["miss_distance"]["miles"])
    /\ row.orbiting_body = e["orbiting_body"]

\* the rows a step appended to a table
Added(before, after) == SubSeq(after, Len(before) + 1, Len(after))

IsExtension(before, after) ==
    Len(after) >= Len(before) /\ SubSeq(after, 1, Len(before)) = before

\* the leading well-formed entries of a list
RECURSIVE LeadingWellFormed(_)
LeadingWellFormed(cad) ==
    IF Len(cad) = 0 \/ ~EntryWellFormed(Head(cad)) THEN 0
    ELSE 1 + LeadingWellFormed(Tail(cad))

\* C3 as stated: ingesting any complete raw record with m close-approach
\* entries yields m approach rows for it, in source order.
C3_Original ==
    [][(Ingested /\ Complete(asteroid')) =>
          LET cad == asteroid'["close_approach_data"]
              new == Added(conn.close_approaches, conn'.close_approaches)
          IN /\ IsExtension(conn.close_approaches, conn'.close_approaches)
             /\ Len(new) = Len(cad)
             /\ \A i \in 1..Len(cad) : CarriesEntry(new[i], asteroid'["id"], cad[i])]_vars

\* C3 amended: ingesting a raw record that the loop stores (hazard flag
\* true, asteroid fields present, diameter block well-formed) appends one
\* approach row per entry in source order up to the first entry it cannot
\* build, where it raises; when all m entries are well-formed these are
\* exactly m rows and the loop goes on.
C3_StoredApproaches ==
    [][(Ingested /\ Stored(asteroid') /\ "estimated_diameter" \in DOMAIN asteroid'
        /\ "close_approach_data" \in DOMAIN asteroid'
        /\ BlockWellFormed(asteroid'["estimated_diameter"])) =>
          LET cad == asteroid'["close_approach_data"]
              new == Added(conn.close_approaches, conn'.close_approaches)
              k == LeadingWellFormed(cad)
          IN /\ IsExtension(conn.close_approaches, conn'.close_approaches)
             /\ Len(new) = k
             /\ \A i \in 1..k : CarriesEntry(new[i], asteroid'["id"], cad[i])
             /\ (k = Len(cad)) <=> (pc' = "for")]_vars

\* C3 witness: a stored record with two distinct entries has been ingested
\* on top of earlier approach rows, and its two rows end the table in
\* source order.
C3_Witness ==
    /\ pc = "for" /\ asteroid # Unbound /\ Stored(asteroid) /\ Complete(asteroid)
    /\ Len(asteroid["close_approach_data"]) = 2
    /\ asteroid["close_approach_data"][1] # asteroid["close_approach_data"][2]
    /\ Len(conn.close_approaches) > 2
    /\ LET n == Len(conn.close_approaches) IN
       /\ CarriesEntry(conn.close_approaches[n - 1], asteroid["id"], asteroid["close_approach_data"][1])
       /\ CarriesEntry(conn.close_approaches[n], asteroid["id"], asteroid["close_approach_data"][2])

\* the diameter row is the unit's block
CarriesUnit(row, id, item) ==
    /\ row.asteroid_id = id
    /\ row.unit = item.key
    /\ row.diameter_min = item.value["estimated_diameter_min"]
    /\ row.diameter_max = item.value["estimated_diameter_max"]
    /\ row.diameter_min <= row.diameter_max

\* C4 as stated: ingesting any complete raw record whose diameter block
\* has k units yields k diameter rows, one per unit, each with min <= max.
C4_Original ==
    [][(Ingested /\ Complete(asteroid')) =>
          LET block == asteroid'["estimated_diameter"]
              new == Added(conn.asteroid_diameters, conn'.asteroid_diameters)
          IN /\ IsExtension(conn.asteroid_diameters, conn'.asteroid_diameters)
             /\ Len(new) = Len(block)
             /\ \A i \in 1..Len(block) : CarriesUnit(new[i], asteroid'["id"], block[i])]_vars

\* C4 amended: ingesting a raw record that the loop stores (hazard flag
\* true, asteroid fields present) and whose diameter block is well-formed
\* with k units appends exactly k diameter rows, one per unit present, in
\* block order, each with the unit's min and max and min <= max.
C4_StoredDiameters ==
    [][(Ingested /\ Stored(asteroid') /\ "estimated_diameter" \in DOMAIN asteroid'
        /\ BlockWellFormed(asteroid'["estimated_diameter"])) =>
          LET block == asteroid'["estimated_diameter"]
              new == Added(conn.asteroid_diameters, conn'.asteroid_diameters)
          IN /\ IsExtension(conn.asteroid_diameters, conn'.asteroid_diameters)
             /\ Len(new) = Len(block)
             /\ \A i \in 1..Len(block) : CarriesUnit(new[i], asteroid'["id"], block[i])
             /\ {new[i].unit : i \in 1..Len(new)} = {block[i].key : i \in 1..Len(block)}]_vars

\* C4 witness: a stored record with two of the four units has been
\* ingested on top of earlier diameter rows and its two rows end the table.
C4_Witness ==
    /\ pc = "for" /\ asteroid # Unbound /\ Stored(asteroid) /\ Complete(asteroid)
    /\ Len(asteroid["estimated_diameter"]) = 2
    /\ Len(conn.asteroid_diameters) > 2
    /\ LET n == Len(conn.asteroid_diameters) IN
       /\ CarriesUnit(conn.asteroid_diameters[n - 1], asteroid["id"], asteroid["estimated_diameter"][1])
       /\ CarriesUnit(conn.asteroid_diameters[n], asteroid["id"], asteroid["estimated_diameter"][2])
       /\ conn.asteroid_diameters[n].diameter_min < conn.asteroid_diameters[n].diameter_max

\* the record of the last loop iteration, while its effect is in conn
Current(a) == pc \in {"for", "raised"} /\ asteroid = a

LastIngested == pc \in {"for", "raised"} /\ asteroid # Unbound

\* C5: a stored record without a diameter block is ingested without an
\* exception and leaves its asteroid row in the table.
C5_NoDiameterBlock ==
    (LastIngested /\ Stored(asteroid) /\ "estimated_diameter" \notin DOMAIN asteroid) =>
        /\ pc = "for"
        /\ Len(WithId(conn.asteroids, asteroid["id"])) = 1

\* C6: the batch normalizer returns a result for every batch, and the
\* result has the entry of every record that normalizes on its own.
C6_BatchSurvives ==
    npc \in {"normalized", "raised"} =>
        /\ normalized_batch.exc = ""
        /\ \A i \in 1..Len(asteroid_batch) :
             LET r == normalize_asteroid_data(asteroid_batch[i]) IN
             r.exc = "" => \E j \in 1..Len(normalized_batch.value) : normalized_batch.value[j] = r.value

\* an entry with all its keys and a velocity or miss-distance string that
\* is no number
Unparsable(e) ==
    /\ {"close_approach_date", "relative_velocity", "miss_distance", "orbiting_body"} \subseteq DOMAIN e
    /\ VelocityKeys \subseteq DOMAIN e["relative_velocity"]
    /\ DistanceKeys \subseteq DOMAIN e["miss_distance"]
    /\ \/ \E k \in VelocityKeys : e["relative_velocity"][k] \notin Numerals
       \/ \E k \in DistanceKeys : e["miss_distance"][k] \notin Numerals

\* C7: a stored record one of whose entries has an unparsable velocity or
\* miss distance is ingested without an exception, and its asteroid row and
\* the rows of its other entries are in the tables.
C7_UnparsableSkipped ==
    (/\ LastIngested /\ Stored(asteroid)
     /\ {"estimated_diameter", "close_approach_data"} \subseteq DOMAIN asteroid
     /\ BlockWellFormed(asteroid["estimated_diameter"])
     /\ \A i \in 1..Len(asteroid["close_approach_data"]) :
           EntryWellFormed(asteroid["close_approach_data"][i]) \/ Unparsable(asteroid["close_approach_data"][i])
     /\ \E i \in 1..Len(asteroid["close_approach_data"]) : Unparsable(asteroid["close_approach_data"][i]))
    => /\ pc = "for"
       /\ Len(WithId(conn.asteroids, asteroid["id"])) = 1
       /\ \A i \in 1..Len(asteroid["close_approach_data"]) :
            EntryWellFormed(asteroid["close_approach_data"][i]) =>
              \E j \in 1..Len(conn.close_approaches) :
                 CarriesEntry(conn.close_approaches[j], asteroid["id"], asteroid["close_approach_data"][i])

\* sum of the lengths of the first n groups
RECURSIVE Offset(_, _)
Offset(neo, n) == IF n = 0 THEN 0 ELSE Offset(neo, n - 1) + Len(neo[n].value)

\* C8: the extracted batch holds every object of every date exactly once,
\* the dates in their order and each date's list in its order; and the
\* normalized batch, when the normalizer returns one, has one entry per
\* object of the extracted batch, entry i made from object i.
C8_FlattenInOrder ==
    /\ npc # "feed" =>
         LET neo == Get(feed_response, "near_earth_objects", <<>>) IN
         /\ Len(asteroid_batch) = Offset(neo, Len(neo))
         /\ \A g \in 1..Len(neo) : \A i \in 1..Len(neo[g].value) :
              asteroid_batch[Offset(neo, g - 1) + i] = neo[g].value[i]
    /\ npc = "normalized" =>
         /\ Len(normalized_batch.value) = Len(asteroid_batch)
         /\ \A i \in 1..Len(asteroid_batch) :
              /\ normalized_batch.value[i] = normalize_asteroid_data(asteroid_batch[i]).value
              /\ normalized_batch.value[i].id = Get(asteroid_batch[i], "id", None)
              /\ normalized_batch.value[i].name = Get(asteroid_batch[i], "name", None)

\* C8 witness: a feed of two dates with three objects, not all alike, has
\* been extracted and normalized.
C8_Witness ==
    /\ npc = "normalized"
    /\ "near_earth_objects" \in DOMAIN feed_response
    /\ Len(feed_response["near_earth_objects"]) = 2
    /\ Len(feed_response["near_earth_objects"][1].value) = 1
    /\ Len(feed_response["near_earth_objects"][2].value) = 2
    /\ Len(normalized_batch.value) = 3
    /\ normalized_batch.value[1].id # normalized_batch.value[2].id
    /\ normalized_batch.value[2].name # normalized_batch.value[3].name

\* C9: a response of the lookup handler is never an internal error; it is
\* 404, naming the identifier, exactly when the committed table has no row
\* for the identifier, and 200 with that row otherwise; the step that
\* produces a response leaves both views of the tables as they were.
C9_NotFoundSignal ==
    [][(response' # response) =>
          /\ db' = db /\ conn' = conn
          /\ response'.status \in {200, 404}
          /\ response'.status = 404 => response'.detail[2] \notin KnownIds(db)
          /\ response'.status = 200 =>
               /\ response'.body.asteroid.id \in KnownIds(db)
               /\ response'.body.asteroid \in {db.asteroids[i] : i \in 1..Len(db.asteroids)}]_vars

\* C9 witness: with one identifier committed, a lookup of the other known
\* identifier has been answered 404.
C9_Witness ==
    /\ response.status = 404
    /\ response.detail[2] \in Ids
    /\ Len(db.asteroids) > 0
    /\ response.detail[2] \notin KnownIds(db)

OptionalKeys == {"neo_reference_id", "name", "nasa_jpl_url", "absolute_magnitude_h", "is_sentry_object"}

\* C10: a hazardous record that lacks nothing but optional fields is
\* ingested without an exception, and a missing sentry flag is stored as
\* false.
C10_OptionalFieldsDefault ==
    (/\ LastIngested
     /\ RawKeys \ OptionalKeys \subseteq DOMAIN asteroid
     /\ asteroid["is_potentially_hazardous_asteroid"] = PyTrue
     /\ BlockWellFormed(asteroid["estimated_diameter"])
     /\ \A i \in 1..Len(asteroid["close_approach_data"]) : EntryWellFormed(asteroid["close_approach_data"][i]))
    => /\ pc = "for"
       /\ Len(WithId(conn.asteroids, asteroid["id"])) = 1
       /\ "is_sentry_object" \notin DOMAIN asteroid =>
            WithId(conn.asteroids, asteroid["id"])[1].is_sentry_object = 0

\* number of rows of a child table that reference an identifier
Count(rows, id) == Len(SelectSeq(rows, LAMBDA r : r.asteroid_id = id))

\* C11: every ingestion of a complete record that the loop stores, with k
\* units and m entries, leaves one asteroid row under its identifier and
\* adds k diameter rows and m approach rows that reference it to those
\* already there, so n ingestions make n*k and n*m; every ingestion step
\* only appends to the child tables, and the committed child tables are
\* only ever extended.
C11_ChildRowsAccumulate ==
    [][/\ Ingested =>
            /\ IsExtension(conn.asteroid_diameters, conn'.asteroid_diameters)
            /\ IsExtension(conn.close_approaches, conn'.close_approaches)
       /\ (Ingested /\ Stored(asteroid') /\ Complete(asteroid')) =>
            LET id == asteroid'["id"] IN
            /\ Len(WithId(conn'.asteroids, id)) = 1
            /\ Count(conn'.asteroid_diameters, id) =
                 Count(conn.asteroid_diameters, id) + Len(asteroid'["estimated_diameter"])
            /\ Count(conn'.close_approaches, id) =
                 Count(conn.close_approaches, id) + Len(asteroid'["close_approach_data"])
       /\ IsExtension(db.asteroid_diameters, db'.asteroid_diameters)
       /\ IsExtension(db.close_approaches, db'.close_approaches)]_vars

\* C11 witness: the record committed by the first run (k = 4, m = 2) has
\* been ingested again by the second run: one asteroid row, which carries
\* it, and 2*k diameter rows and 2*m approach rows, the second half a copy
\* of the first.
C11_Witness ==
    /\ runs = 2 /\ pc = "for" /\ asteroid # Unbound /\ Stored(asteroid) /\ Complete(asteroid)
    /\ Len(asteroid["estimated_diameter"]) = 4 /\ Len(asteroid["close_approach_data"]) = 2
    /\ Len(db.asteroids) = 1 /\ Carries(db.asteroids[1], asteroid)
    /\ Len(db.asteroid_diameters) = 4 /\ Len(db.close_approaches) = 2
    /\ Len(conn.asteroids) = 1 /\ Carries(conn.asteroids[1], asteroid)
    /\ Len(conn.asteroid_diameters) = 2 * 4 /\ Len(conn.close_approaches) = 2 * 2
    /\ \A i \in 1..4 : conn.asteroid_diameters[i + 4] = conn.asteroid_diameters[i]
    /\ \A i \in 1..2 : conn.close_approaches[i + 2] = conn.close_approaches[i]
    /\ \A i \in 1..8 : conn.asteroid_diameters[i].asteroid_id = asteroid["id"]

HazardFlags(store) == {store.asteroids[i].is_potentially_hazardous : i \in 1..Len(store.asteroids)}

ReferencedIds(store) ==
    {store.asteroid_diameters[i].asteroid_id : i \in 1..Len(store.asteroid_diameters)}
    \cup {store.close_approaches[i].asteroid_id : i \in 1..Len(store.close_approaches)}

\* C12: after every step, every asteroid row, in the script's view and as
\* committed, has its hazard flag set to 1 and every child row references
\* an asteroid row; and the step that ingests a record whose
\* is_potentially_hazardous_asteroid is false writes no row at all and
\* goes on with the loop.
C12_HazardousOnly ==
    [][/\ HazardFlags(conn') \subseteq {1} /\ HazardFlags(db') \subseteq {1}
       /\ ReferencedIds(conn') \subseteq KnownIds(conn')
       /\ ReferencedIds(db') \subseteq KnownIds(db')
       /\ (/\ Ingested
           /\ "is_potentially_hazardous_asteroid" \in DOMAIN asteroid'
           /\ asteroid'["is_potentially_hazardous_asteroid"] = PyFalse) =>
              /\ conn' = conn /\ db' = db
              /\ pc' = "for"]_vars

\* C12 witness: with rows of a hazardous asteroid in the tables, a complete
\* record of another identifier whose hazard flag is false has been
\* iterated, and no table has a row for it.
C12_Witness ==
    /\ pc = "for" /\ asteroid # Unbound
    /\ RawKeys \subseteq DOMAIN asteroid
    /\ asteroid["is_potentially_hazardous_asteroid"] = PyFalse
    /\ Len(conn.asteroids) > 0 /\ Len(conn.close_approaches) > 0
    /\ asteroid["id"] \notin KnownIds(conn) \cup ReferencedIds(conn)

\* the step just taken answered a request of the given route
Answered(route) ==
    /\ response' # response
    /\ "request" \in DOMAIN response'
    /\ response'.request.route = route

\* C13: a report request none of whose ids has an asteroid row, and a feed
\* request whose fetched feed has no asteroids for the date, are answered
\* with status 404 and the not-found detail.
C13_NotFoundIs404 ==
    [][/\ (/\ Answered("/ai/report")
           /\ \A i \in 1..Len(response'.request.asteroidIds) :
                response'.request.asteroidIds[i] \notin KnownIds(db)) =>
              /\ response'.sent.status = 404
              /\ response'.sent.detail = <<"No asteroids found for provided IDs">>
       /\ (/\ Answered("/asteroids/{date}")
           /\ "status_code" \in DOMAIN response'.request.fetched
           /\ response'.request.fetched.status_code = 200
           /\ LET neo == Get(response'.request.fetched.json, "near_earth_objects", <<>>) IN
              \A g \in 1..Len(neo) :
                  neo[g].key = response'.request.date => Len(neo[g].value) = 0) =>
              /\ response'.sent.status = 404
              /\ response'.sent.detail = <<"No asteroids found for date", response'.request.date>>]_vars

====
